---- MODULE Spec2Model ----
(***************************************************************************)
(* State-machine model of aws_lambda_powertools.metrics.base.MetricManager *)
(* (metric / dimension / namespace buffers, unit normalisation, the        *)
(* ceiling-triggered flush and EMF serialisation).                         *)
(*                                                                         *)
(* Python values are tagged records (PyNone, PyStr, PyInt, PyFloat,        *)
(* PyComplex, PyEnum for a MetricUnit member).  Metric and dimension names *)
(* are strings, written as natural numbers: equal number, equal key.       *)
(* A dict is the sequence of its items in insertion order.                 *)
(***************************************************************************)
EXTENDS Integers, Sequences, FiniteSets, TLC

VARIABLES
    metric_set,     \* self.metric_set: items [name, Unit, Value] in insertion order
    dimension_set,  \* self.dimension_set: items [name, value] in insertion order
    namespace,      \* self.namespace: None or a str
    stdout,         \* the documents written by print(json.dumps(metrics))
    outcome,        \* how the last call ended: [op, status, flushed]
    config,         \* what the constructor was given: [env, arg]
    _config,        \* Tracer._config, the class attribute all Tracer instances share
    tracers,        \* the Tracer instances constructed so far: [args, self, epoch]
    environ,        \* os.environ as the tracer reads it
    sdk_enabled,    \* aws_xray_sdk.global_sdk_config: whether the SDK is enabled
    patched,        \* the calls of aws_xray_sdk.core.patch_all / patch so far
    resets,         \* how many times Tracer._reset_config was called
    is_cold_start,  \* the module's global is_cold_start
    subsegments,    \* the subsegments of the decorated calls so far, closed
    provider_calls, \* the calls of provider.put_annotation / put_metadata so far
    added           \* the names of the add_metric calls of a batch run that ended ok

metrics_vars == <<metric_set, dimension_set, namespace, stdout, outcome, config>>

tracer_vars ==
    <<_config, tracers, environ, sdk_enabled, patched, resets,
      is_cold_start, subsegments, provider_calls>>

batch_vars == <<added>>

vars == <<metrics_vars, tracer_vars, batch_vars>>

----------------------------------------------------------------------------
\* Python values

PyNone == [t |-> "none"]
PyStr(s) == [t |-> "str", s |-> s]
PyComplex == [t |-> "complex"]
PyEnum(m) == [t |-> "enum", m |-> m]
PyBool(b) == [t |-> "bool", b |-> b]

\* An int or float holds the number hi * Word + lo, 0 <= lo < Word, so that
\* numbers around 2**53, where a float stops holding every int, can be written
Word == 2^30
PyIntOf(hi, lo) == [t |-> "int", hi |-> hi, lo |-> lo]
PyFloatOf(hi, lo) == [t |-> "float", hi |-> hi, lo |-> lo]
PyInt(n) == PyIntOf(n \div Word, n % Word)
PyFloat(n) == PyFloatOf(n \div Word, n % Word)

\* 2**53 \div Word: below it a float holds every int, from it on every second
DoubleExactHi == 2^23

\* isinstance(value, numbers.Number)
IsNumber(v) == v.t \in {"int", "float", "complex"}

\* float(value) is defined for int and float, and raises TypeError for complex
FloatDefined(v) == v.t \in {"int", "float"}

\* float(value) of an int below 2**54: the nearest float, a tie going to the one
\* with the even mantissa; a float is returned as it is
ToFloat(v) ==
    IF v.t = "float" \/ v.hi < DoubleExactHi \/ v.lo % 2 = 0
    THEN PyFloatOf(v.hi, v.lo)
    ELSE LET lo == IF ((v.lo - 1) \div 2) % 2 = 0 THEN v.lo - 1 ELSE v.lo + 1
         IN  IF lo = Word THEN PyFloatOf(v.hi + 1, 0) ELSE PyFloatOf(v.hi, lo)

\* Python's == between two values, numbers compared across int and float
PyEq(a, b) ==
    IF a.t \in {"int", "float"} /\ b.t \in {"int", "float"}
    THEN a.hi = b.hi /\ a.lo = b.lo
    ELSE a = b

\* bool(x) of a str or None, as used by `a or b`
Truthy(v) == v.t = "str" /\ v.s # ""

----------------------------------------------------------------------------
\* Program constants and the bounds of the model

MAX_METRICS == 100

\* a pre-populated metric_set holds MAX_METRICS - Near metrics
Near == 1
\* a buffer that started small is filled up to MaxLow metrics
MaxLow == 1
\* the buffer grows to at most MAX_METRICS + MaxOver metrics
MaxOver == 1
\* at most MaxPrinted documents are printed
MaxPrinted == 1
\* the clock reads 0..MaxNow milliseconds
MaxNow == 0

----------------------------------------------------------------------------
\* The unit catalogue: MetricUnit's members and their values

MetricUnitMembers == {"Count", "Seconds", "CountPerSecond"}

MetricUnitValue(m) ==
    CASE m = "Count" -> "Count"
      [] m = "Seconds" -> "Seconds"
      [] m = "CountPerSecond" -> "Count/Second"

\* self._metric_units
metric_units == {MetricUnitValue(m) : m \in MetricUnitMembers}

\* self._metric_unit_options
metric_unit_options == MetricUnitMembers

\* a check that raises for the empty str only
ExtractRaisesOnEmpty(unit) == unit.t = "str" /\ unit.s = ""

\* __extract_metric_unit_value raises MetricUnitError: a str that, after the
\* symbolic names are mapped, is not among the unit values
ExtractRaises(unit) ==
    /\ unit.t = "str"
    /\ (IF unit.s \in metric_unit_options THEN MetricUnitValue(unit.s) ELSE unit.s)
           \notin metric_units

\* __extract_metric_unit_value's return value when it does not raise
extract_metric_unit_value(unit) ==
    IF unit.t = "str"
    THEN IF unit.s \in metric_unit_options THEN PyStr(MetricUnitValue(unit.s)) ELSE unit
    ELSE IF unit.t = "enum" THEN PyStr(MetricUnitValue(unit.m))
    ELSE unit

----------------------------------------------------------------------------
\* dict operations

Keys(d) == {d[i].name : i \in 1..Len(d)}

KeyList(d) == [i \in 1..Len(d) |-> d[i].name]

\* k in d
Has(d, k) == \E i \in 1..Len(d) : d[i].name = k

Index(d, k) == CHOOSE i \in 1..Len(d) : d[i].name = k

\* an insert that never replaces
DictAppend(d, item) == Append(d, item)

\* an insert that moves a present key to the last position
DictSetMovesLast(d, item) ==
    Append(SelectSeq(d, LAMBDA e : e.name # item.name), item)

\* d[k] = item: a present key keeps its position, a new key goes last
DictSet(d, item) ==
    IF Has(d, item.name)
    THEN [d EXCEPT ![Index(d, item.name)] = item]
    ELSE Append(d, item)

----------------------------------------------------------------------------
\* serialize_metric_set

\* d.update(**other): the items of other are set in d, in other's order
RECURSIVE Update(_, _)
Update(d, other) ==
    IF other = << >> THEN d ELSE Update(DictSet(d, Head(other)), Tail(other))

\* d[k]
Get(d, k) == d[Index(d, k)].value

\* a flat part whose metric values are the default of metric.get("Value", 0)
FlatEntriesDefault(metrics, dimensions) ==
    Update([i \in 1..Len(metrics) |-> [name |-> metrics[i].name, value |-> PyInt(0)]],
           dimensions)

\* a flat part in which the metrics are set after the dimensions
FlatEntriesMetricsWin(metrics, dimensions) ==
    [i \in 1..Len(dimensions) |->
        IF Has(metrics, dimensions[i].name)
        THEN [name |-> dimensions[i].name,
              value |-> metrics[Index(metrics, dimensions[i].name)].Value]
        ELSE dimensions[i]]
    \o SelectSeq([i \in 1..Len(metrics) |->
                    [name |-> metrics[i].name, value |-> metrics[i].Value]],
                 LAMBDA e : ~Has(dimensions, e.name))

\* the flat part of the document: metric_set.update({metric_name: metric_value})
\* for each metric, then metric_set.update(**dimensions)
FlatEntries(metrics, dimensions) ==
    Update([i \in 1..Len(metrics) |-> [name |-> metrics[i].name, value |-> metrics[i].Value]],
           dimensions)

\* the document serialize_metric_set assembles, before validation
Assemble(metrics, dimensions, ns, now) ==
    [aws |-> [Timestamp |-> now,
              CloudWatchMetrics |-> <<
                  [Namespace |-> ns,
                   Dimensions |-> << KeyList(dimensions) >>,
                   Metrics |-> [i \in 1..Len(metrics) |->
                                   [Name |-> metrics[i].name, Unit |-> metrics[i].Unit]]] >>],
     flat |-> FlatEntries(metrics, dimensions)]

\* fastjsonschema.validate against CLOUDWATCH_EMF_SCHEMA accepts the document
SchemaValid(doc) ==
    LET cw == doc.aws.CloudWatchMetrics[1] IN
    /\ doc.aws.Timestamp >= 0
    /\ cw.Namespace.t = "str" /\ cw.Namespace.s # ""
    /\ Len(cw.Dimensions) >= 1
    /\ \A i \in 1..Len(cw.Metrics) :
          /\ cw.Metrics[i].Unit.t = "str"
          /\ cw.Metrics[i].Unit.s \in metric_units
    /\ LET described == {cw.Metrics[i].Name : i \in 1..Len(cw.Metrics)} IN
       /\ described \subseteq Keys(doc.flat)
       /\ \A j \in 1..Len(doc.flat) :
             doc.flat[j].name \in described => doc.flat[j].value.t \in {"int", "float"}

----------------------------------------------------------------------------
\* Inputs

NamespaceInputs == {PyStr(""), PyStr("ns2")}

\* dimension name 0 is no metric's name; dimension name 1 is also metric 1's
DimensionInputs ==
    {[name |-> 0, value |-> PyStr("a")], [name |-> 0, value |-> PyStr("b")],
     [name |-> 1, value |-> PyStr("a")]}

UnitInputs ==
    {PyEnum("CountPerSecond"), PyStr("CountPerSecond"), PyStr("Count/Second"),
     PyStr("Frobnicates"), PyNone}

\* 2**53 + 1 is the smallest int that no float holds
ValueInputs == {PyInt(1), PyFloat(1), PyIntOf(DoubleExactHi, 1), PyStr("1"), PyComplex}

\* the unit and value pairs add_metric is called with: each unit and each value
\* of the input sets is in one of them, and each result that a pair of
\* UnitInputs and ValueInputs leads to (what is stored, which exception is
\* raised) is the result of one of them
HotInputs ==
    {<<PyEnum("CountPerSecond"), PyInt(1)>>,
     <<PyStr("CountPerSecond"), PyFloat(1)>>,
     <<PyStr("Count/Second"), PyIntOf(DoubleExactHi, 1)>>,
     <<PyNone, PyInt(1)>>,
     <<PyNone, PyIntOf(DoubleExactHi, 1)>>,
     <<PyStr("Frobnicates"), PyInt(1)>>,
     <<PyStr("Frobnicates"), PyComplex>>,
     <<PyStr("Frobnicates"), PyStr("1")>>,
     <<PyEnum("CountPerSecond"), PyStr("1")>>,
     <<PyEnum("CountPerSecond"), PyComplex>>}

\* the names that are added with the pairs of HotInputs
HotNames == {1}

\* what the clock reads, in milliseconds
Clock == 0..MaxNow

\* the smallest name not in the buffer
Fresh(d) ==
    LET free == (1..(Len(d) + 1)) \ Keys(d)
    IN  CHOOSE n \in free : \A m \in free : n <= m

NameInputs(d) == HotNames \cup {Fresh(d)}

\* what the other names are added with
PlainUnit == PyEnum("Count")
PlainValue == PyInt(1)

\* a metric_set of k metrics, as add_metric stores them
Fillers(k) == [i \in 1..k |-> [name |-> i, Unit |-> PyStr("Count"), Value |-> PyFloat(1)]]

----------------------------------------------------------------------------
\* Operations

\* how a call ended: the operation, "ok" or the exception raised, and whether
\* add_metric printed a document and cleared the metric buffer
Ended(op, status, flushed) == [op |-> op, status |-> status, flushed |-> flushed]

\* MetricManager.__init__: the namespace it keeps
InitNamespace(env, arg) == IF Truthy(env) THEN env ELSE arg

\* MetricManager.__init__
MetricManagerInit ==
    /\ \E env \in {PyNone, PyStr("ns1")}, arg \in {PyNone, PyStr("ns2")} :
          /\ config = [env |-> env, arg |-> arg]
          /\ namespace = InitNamespace(env, arg)
    /\ metric_set \in {<< >>, Fillers(MAX_METRICS - Near)}
    /\ dimension_set = << >>
    /\ stdout = << >>
    /\ outcome = Ended("init", "ok", FALSE)

\* an add_namespace that accepts the value already set
add_namespace_same_ok(name) ==
    IF namespace # PyNone /\ namespace # name
    THEN [namespace |-> namespace, status |-> "UniqueNamespaceError"]
    ELSE [namespace |-> name, status |-> "ok"]

\* MetricManager.add_namespace: the namespace it leaves and how it ends
add_namespace_result(name) ==
    IF namespace # PyNone
    THEN [namespace |-> namespace, status |-> "UniqueNamespaceError"]
    ELSE [namespace |-> name, status |-> "ok"]

add_namespace(name) ==
    LET r == add_namespace_result(name) IN
    /\ namespace' = r.namespace
    /\ outcome' = Ended("add_namespace", r.status, FALSE)
    /\ UNCHANGED <<metric_set, dimension_set, stdout, config>>

\* an add_dimension that keeps the value a name already has
add_dimension_first_wins(name, value) ==
    [dimension_set |-> IF Has(dimension_set, name) THEN dimension_set
                       ELSE Append(dimension_set, [name |-> name, value |-> value]),
     status |-> "ok"]

\* MetricManager.add_dimension: the dimension_set it leaves and how it ends
add_dimension_result(name, value) ==
    [dimension_set |-> DictSet(dimension_set, [name |-> name, value |-> value]),
     status |-> "ok"]

add_dimension(name, value) ==
    LET r == add_dimension_result(name, value) IN
    /\ dimension_set' = r.dimension_set
    /\ outcome' = Ended("add_dimension", r.status, FALSE)
    /\ UNCHANGED <<metric_set, namespace, stdout, config>>

\* a serialize_metric_set that returns the document without validating it
serialize_unvalidated(metrics, dimensions, now) ==
    [status |-> "ok", returned |-> Assemble(metrics, dimensions, namespace, now)]

\* MetricManager.serialize_metric_set(metrics, dimensions) when the clock reads
\* now: the document it returns, or the exception it raises
serialize_metric_set_result(metrics, dimensions, now) ==
    LET doc == Assemble(metrics, dimensions, namespace, now) IN
    IF SchemaValid(doc)
    THEN [status |-> "ok", returned |-> doc]
    ELSE [status |-> "SchemaValidationError", returned |-> PyNone]

\* a serialize_metric_set that clears the metrics it has serialized
serialize_clears(now) ==
    LET r == serialize_metric_set_result(metric_set, dimension_set, now) IN
    /\ outcome' = Ended("serialize_metric_set", r.status, FALSE)
    /\ metric_set' = IF r.status = "ok" THEN << >> ELSE metric_set
    /\ UNCHANGED <<dimension_set, namespace, stdout, config>>

\* MetricManager.serialize_metric_set() with its default arguments
serialize_metric_set(now) ==
    /\ outcome' = Ended("serialize_metric_set",
                        serialize_metric_set_result(metric_set, dimension_set, now).status,
                        FALSE)
    /\ UNCHANGED <<metric_set, dimension_set, namespace, stdout, config>>

\* the metric add_metric stores under name
Metric(name, unit, value) ==
    [name |-> name, Unit |-> extract_metric_unit_value(unit), Value |-> ToFloat(value)]

\* add_metric gets as far as storing the metric
Stores(unit, value) == IsNumber(value) /\ ~ExtractRaises(unit) /\ FloatDefined(value)

\* add_metric stores the metric and finds the buffer at the ceiling
Serializes(name, unit, value) ==
    /\ Stores(unit, value)
    /\ Len(DictSet(metric_set, Metric(name, unit, value))) = MAX_METRICS

\* add_metric raises: nothing stored, nothing printed
Raised(status) ==
    [metric_set |-> metric_set, printed |-> << >>, returned |-> PyNone, status |-> status]

\* a ceiling flush that swallows the exception of serialize_metric_set: the call
\* ends ok, with the metrics cleared
ceiling_swallows_error(stored, now) ==
    LET metrics == serialize_metric_set_result(stored, dimension_set, now) IN
    [metric_set |-> << >>,
     printed |-> IF metrics.status = "ok" THEN << metrics.returned >> ELSE << >>,
     returned |-> PyNone, status |-> "ok"]

\* a ceiling flush that tells the caller whether it printed
ceiling_returns_flag(stored, now) ==
    LET metrics == serialize_metric_set_result(stored, dimension_set, now) IN
    IF metrics.status = "ok"
    THEN [metric_set |-> << >>, printed |-> << metrics.returned >>,
          returned |-> PyBool(TRUE), status |-> "ok"]
    ELSE [metric_set |-> stored, printed |-> << >>, returned |-> PyNone,
          status |-> metrics.status]

\* add_metric with the buffer at the ceiling: serialize, print, clear the metrics;
\* an exception of serialize_metric_set leaves the call before the print
ceiling_result(stored, now) ==
    LET metrics == serialize_metric_set_result(stored, dimension_set, now) IN
    IF metrics.status = "ok"
    THEN [metric_set |-> << >>, printed |-> << metrics.returned >>,
          returned |-> PyNone, status |-> "ok"]
    ELSE [metric_set |-> stored, printed |-> << >>, returned |-> PyNone,
          status |-> metrics.status]

\* an add_metric that flushes whenever the buffer holds the ceiling or more
add_metric_flushes_from_ceiling(name, unit, value, now) ==
    IF ~IsNumber(value) THEN Raised("MetricValueError")
    ELSE IF ExtractRaises(unit) THEN Raised("MetricUnitError")
    ELSE IF ~FloatDefined(value) THEN Raised("TypeError")
    ELSE LET stored == DictSet(metric_set, Metric(name, unit, value)) IN
         IF Len(stored) >= MAX_METRICS
         THEN ceiling_result(stored, now)
         ELSE [metric_set |-> stored, printed |-> << >>, returned |-> PyNone,
               status |-> "ok"]

\* MetricManager.add_metric when the clock reads now: the metric_set it leaves,
\* the documents it prints, what it returns and how it ends
add_metric_result(name, unit, value, now) ==
    IF ~IsNumber(value) THEN Raised("MetricValueError")
    ELSE IF ExtractRaises(unit) THEN Raised("MetricUnitError")
    ELSE IF ~FloatDefined(value) THEN Raised("TypeError")
    ELSE LET stored == DictSet(metric_set, Metric(name, unit, value)) IN
         IF Len(stored) = MAX_METRICS
         THEN ceiling_result(stored, now)
         ELSE [metric_set |-> stored, printed |-> << >>, returned |-> PyNone,
               status |-> "ok"]

\* an add_metric whose flush clears the dimensions together with the metrics
add_metric_clears_dimensions(name, unit, value) ==
    \E now \in (IF Serializes(name, unit, value) THEN Clock ELSE {0}) :
        LET r == add_metric_result(name, unit, value, now) IN
        /\ metric_set' = r.metric_set
        /\ stdout' = stdout \o r.printed
        /\ outcome' = Ended("add_metric", r.status, r.printed # << >>)
        /\ dimension_set' = IF r.printed # << >> THEN << >> ELSE dimension_set
        /\ UNCHANGED <<namespace, config>>

\* MetricManager.add_metric; the clock is read only when the call serializes
add_metric(name, unit, value) ==
    \E now \in (IF Serializes(name, unit, value) THEN Clock ELSE {0}) :
        LET r == add_metric_result(name, unit, value, now) IN
        /\ metric_set' = r.metric_set
        /\ stdout' = stdout \o r.printed
        /\ outcome' = Ended("add_metric", r.status, r.printed # << >>)
        /\ UNCHANGED <<dimension_set, namespace, config>>

----------------------------------------------------------------------------
\* The calls a run of the model makes

\* a new name is added while the buffer is small or near the ceiling
Growable(d) ==
    \/ Len(d) < MaxLow
    \/ Len(d) >= MAX_METRICS - Near /\ Len(d) < MAX_METRICS + MaxOver

\* the call does not print more than MaxPrinted documents
Printable(d, name) ==
    \/ Len(stdout) < MaxPrinted
    \/ Len(DictSet(d, [name |-> name])) # MAX_METRICS

CanAdd(name) ==
    /\ name \in NameInputs(metric_set)
    /\ Has(metric_set, name) \/ Growable(metric_set)
    /\ Printable(metric_set, name)

CallAddNamespace == \E name \in NamespaceInputs : add_namespace(name)

CallAddDimension == \E d \in DimensionInputs : add_dimension(d.name, d.value)

CallAddMetricHot ==
    \E name \in HotNames :
        /\ CanAdd(name)
        /\ \E c \in HotInputs : add_metric(name, c[1], c[2])

CallAddMetricPlain ==
    LET name == Fresh(metric_set) IN
    /\ name \notin HotNames
    /\ CanAdd(name)
    /\ add_metric(name, PlainUnit, PlainValue)

CallSerialize == \E now \in Clock : serialize_metric_set(now)

----------------------------------------------------------------------------
\* A batch run: add_metric calls with pairwise distinct names

\* the names of a batch run are 1..MaxNames
MaxNames == 205

\* the first name, which is added with any of the units and values
VariedNames == {1}

\* a name that no add_metric call of the run has stored
NewName ==
    LET used == added \cup Keys(metric_set) \cup {0}
    IN  1 + CHOOSE n \in used : \A m \in used : m <= n

\* add_metric(name, unit, value) of a batch run: the name joins added when the
\* call ends ok
add_metric_new(name, unit, value) ==
    /\ add_metric(name, unit, value)
    /\ added' = IF outcome'.status = "ok" THEN added \cup {name} ELSE added

CallAddMetricNew ==
    LET name == NewName IN
    /\ name <= MaxNames
    /\ \/ name \in VariedNames /\ \E c \in HotInputs : add_metric_new(name, c[1], c[2])
       \/ name \notin VariedNames /\ add_metric_new(name, PlainUnit, PlainValue)

----------------------------------------------------------------------------
\* aws_lambda_powertools.tracing.tracer.Tracer: the configuration that its
\* instances share

\* an object that is compared by identity (a tracing provider)
PyObj(id) == [t |-> "obj", id |-> id]
\* a tuple of module names
PyTuple(items) == [t |-> "tuple", items |-> items]

\* bool(x), as used by `a if a else b` and `if a:`
IsTrue(v) ==
    CASE v.t = "none" -> FALSE
      [] v.t = "bool" -> v.b
      [] v.t = "int" -> v.hi # 0 \/ v.lo # 0
      [] v.t = "str" -> v.s # ""
      [] v.t = "tuple" -> v.items # << >>
      [] OTHER -> TRUE

\* at most MaxTracers Tracer instances are constructed
MaxTracers == 3
\* Tracer._reset_config is called at most MaxResets times
MaxResets == 1

\* aws_xray_sdk.core.xray_recorder
xray_recorder == PyObj("xray_recorder")

\* Tracer._default_config
_default_config ==
    [service |-> PyStr("service_undefined"),
     disabled |-> PyBool(FALSE),
     auto_patch |-> PyBool(TRUE),
     patch_modules |-> PyNone,
     provider |-> xray_recorder]

\* the environment variables the tracer reads, None when unset
Environ(service_name, trace_disabled, sam_local) ==
    [POWERTOOLS_SERVICE_NAME |-> service_name,
     POWERTOOLS_TRACE_DISABLED |-> trace_disabled,
     AWS_SAM_LOCAL |-> sam_local]

NoEnviron == Environ(PyNone, PyNone, PyNone)

EnvironInputs ==
    { Environ(s, d, l) : s \in {PyNone, PyStr("booking")},
                         d \in {PyNone, PyStr("true"), PyStr("false")},
                         l \in {PyNone, PyStr("true")} }

\* the arguments of Tracer(...), None when left out
Args(service, disabled, auto_patch, patch_modules, provider) ==
    [service |-> service, disabled |-> disabled, auto_patch |-> auto_patch,
     patch_modules |-> patch_modules, provider |-> provider]

NoArgs == Args(PyNone, PyNone, PyNone, PyNone, PyNone)

TracerInputs ==
    { NoArgs,
      Args(PyStr("payment"), PyNone, PyNone, PyNone, PyNone),
      Args(PyStr("payment"), PyNone, PyNone, PyNone, PyObj("custom")),
      Args(PyStr("order"), PyNone, PyBool(FALSE), PyNone, PyNone),
      Args(PyStr(""), PyNone, PyNone, PyNone, PyNone),
      Args(PyNone, PyBool(TRUE), PyNone, PyNone, PyNone),
      Args(PyNone, PyBool(FALSE), PyNone, PyNone, PyNone),
      Args(PyNone, PyNone, PyBool(FALSE), PyNone, PyNone),
      Args(PyNone, PyNone, PyNone, PyTuple(<<"boto3">>), PyNone) }

\* the module is imported: the class attribute is a copy of the default
\* configuration, no Tracer exists, nothing is patched
TracerImported(env) ==
    /\ environ = env
    /\ _config = _default_config
    /\ tracers = << >>
    /\ sdk_enabled = TRUE
    /\ patched = << >>
    /\ resets = 0
    /\ is_cold_start = TRUE
    /\ subsegments = << >>
    /\ provider_calls = << >>

\* distutils.util.strtobool, for the spellings of true and false
strtobool(val) ==
    IF val \in {"y", "yes", "t", "true", "on", "1"} THEN PyInt(1) ELSE PyInt(0)

\* Tracer.__is_trace_disabled
is_trace_disabled(env) ==
    LET is_lambda_sam_cli == env.AWS_SAM_LOCAL
        env_option == IF env.POWERTOOLS_TRACE_DISABLED = PyNone
                      THEN "false" ELSE env.POWERTOOLS_TRACE_DISABLED.s
        disabled_env == strtobool(env_option)
    IN  IF IsTrue(disabled_env) THEN disabled_env
        ELSE IF IsTrue(is_lambda_sam_cli) THEN PyBool(TRUE)
        ELSE PyBool(FALSE)

\* a __build_config that takes the disabled argument whenever it is given
build_config_takes_argument(cfg, env, a) ==
    LET is_disabled == IF a.disabled # PyNone THEN a.disabled ELSE is_trace_disabled(env)
        is_service == IF a.service # PyNone THEN a.service ELSE env.POWERTOOLS_SERVICE_NAME
    IN  [provider |-> IF a.provider # PyNone THEN a.provider ELSE cfg.provider,
         auto_patch |-> IF a.auto_patch # PyNone THEN a.auto_patch ELSE cfg.auto_patch,
         service |-> IF IsTrue(is_service) THEN is_service ELSE cfg.service,
         disabled |-> IF a.disabled # PyNone \/ IsTrue(is_disabled) THEN is_disabled
                      ELSE cfg.disabled,
         patch_modules |-> IF IsTrue(a.patch_modules) THEN a.patch_modules
                           ELSE cfg.patch_modules]

\* Tracer.__build_config: the shared configuration it leaves
build_config(cfg, env, a) ==
    LET is_disabled == IF a.disabled # PyNone THEN a.disabled ELSE is_trace_disabled(env)
        is_service == IF a.service # PyNone THEN a.service ELSE env.POWERTOOLS_SERVICE_NAME
    IN  [provider |-> IF a.provider # PyNone THEN a.provider ELSE cfg.provider,
         auto_patch |-> IF a.auto_patch # PyNone THEN a.auto_patch ELSE cfg.auto_patch,
         service |-> IF IsTrue(is_service) THEN is_service ELSE cfg.service,
         disabled |-> IF IsTrue(is_disabled) THEN is_disabled ELSE cfg.disabled,
         patch_modules |-> IF IsTrue(a.patch_modules) THEN a.patch_modules
                           ELSE cfg.patch_modules]

\* Tracer.__init__: the attributes the new instance copies from the shared
\* configuration
Instance(cfg) ==
    [provider |-> cfg.provider, disabled |-> cfg.disabled,
     service |-> cfg.service, auto_patch |-> cfg.auto_patch]

\* Tracer.patch(modules) of an instance: the call of the SDK it makes, if any
patch_result(self, modules) ==
    IF IsTrue(self.disabled) THEN << >>
    ELSE IF modules = PyNone THEN << [call |-> "patch_all"] >>
    ELSE << [call |-> "patch", modules |-> modules] >>

\* Tracer.__init__
Tracer(a) ==
    LET cfg == build_config(_config, environ, a)
        self == Instance(cfg)
    IN  /\ _config' = cfg
        /\ tracers' = Append(tracers, [args |-> a, self |-> self, epoch |-> resets])
        /\ sdk_enabled' = IF IsTrue(self.disabled) THEN FALSE ELSE sdk_enabled
        /\ patched' = IF IsTrue(self.auto_patch)
                      THEN patched \o patch_result(self, a.patch_modules)
                      ELSE patched
        /\ UNCHANGED <<environ, resets, is_cold_start, subsegments, provider_calls>>

\* Tracer._reset_config
_reset_config ==
    /\ _config' = _default_config
    /\ resets' = resets + 1
    /\ UNCHANGED <<tracers, environ, sdk_enabled, patched,
                   is_cold_start, subsegments, provider_calls>>

\* at most MaxCalls calls of put_annotation and put_metadata reach the
\* provider, and at most MaxCalls of patch the SDK
MaxCalls == 1

\* Tracer.put_annotation(key, value) of an instance: the call of its provider
\* it makes, if any
put_annotation_result(self, key, value) ==
    IF IsTrue(self.disabled) THEN << >>
    ELSE << [provider |-> self.provider, call |-> "put_annotation",
             key |-> key, value |-> value, namespace |-> PyNone] >>

\* Tracer.put_metadata(key, value, namespace) of an instance: the call of its
\* provider it makes, if any
put_metadata_result(self, key, value, ns) ==
    IF IsTrue(self.disabled) THEN << >>
    ELSE << [provider |-> self.provider, call |-> "put_metadata",
             key |-> key, value |-> value,
             namespace |-> IF IsTrue(ns) THEN ns ELSE self.service] >>

\* tracers[i].put_annotation(key, value)
put_annotation(i, key, value) ==
    /\ provider_calls' = provider_calls \o put_annotation_result(tracers[i].self, key, value)
    /\ UNCHANGED <<_config, tracers, environ, sdk_enabled, patched, resets,
                   is_cold_start, subsegments>>

\* tracers[i].put_metadata(key, value, namespace)
put_metadata(i, key, value, ns) ==
    /\ provider_calls' = provider_calls \o put_metadata_result(tracers[i].self, key, value, ns)
    /\ UNCHANGED <<_config, tracers, environ, sdk_enabled, patched, resets,
                   is_cold_start, subsegments>>

\* tracers[i].patch(modules)
patch(i, modules) ==
    /\ patched' = patched \o patch_result(tracers[i].self, modules)
    /\ UNCHANGED <<_config, tracers, environ, sdk_enabled, resets,
                   is_cold_start, subsegments, provider_calls>>

\* the modules patch is called with
ModuleInputs == {PyNone, PyTuple(<<"boto3">>)}

\* the namespaces put_metadata is called with
MetadataNamespaceInputs == {PyNone, PyStr("ns")}

CallTracer == Len(tracers) < MaxTracers /\ \E a \in TracerInputs : Tracer(a)

CallPutAnnotation ==
    /\ Len(provider_calls) < MaxCalls
    /\ \E i \in 1..Len(tracers) : put_annotation(i, "key", PyStr("value"))

CallPutMetadata ==
    /\ Len(provider_calls) < MaxCalls
    /\ \E i \in 1..Len(tracers), ns \in MetadataNamespaceInputs :
          put_metadata(i, "key", PyStr("value"), ns)

\* the number of Tracers whose constructor patched
AutoPatched ==
    Cardinality({i \in 1..Len(tracers) :
        IsTrue(tracers[i].self.auto_patch) /\ ~IsTrue(tracers[i].self.disabled)})

CallPatch ==
    /\ Len(patched) < AutoPatched + MaxCalls
    /\ \E i \in 1..Len(tracers), modules \in ModuleInputs : patch(i, modules)

CallResetConfig == resets < MaxResets /\ _reset_config

----------------------------------------------------------------------------
\* Tracer.capture_lambda_handler and Tracer.capture_method

\* at most MaxDecorating Tracers are constructed in a process that runs
\* decorated functions, and at most MaxInvocations decorated calls are made
MaxDecorating == 2
MaxInvocations == 3

\* an exception object of the class cls
PyExc(cls) == [t |-> "exc", cls |-> cls]

\* isinstance(err, Exception): false for the exceptions that derive from
\* BaseException only
IsException(err) == err.cls \notin {"SystemExit", "KeyboardInterrupt", "GeneratorExit"}

\* what the decorated function does when it is called
Returns(value) == [does |-> "return", value |-> value]
Raises(err) == [does |-> "raise", value |-> err]

FunctionInputs ==
    { Returns(PyStr("ok")), Returns(PyStr("")), Returns(PyNone),
      Raises(PyExc("ValueError")), Raises(PyExc("SystemExit")) }

\* the Tracers of a process that runs decorated functions
DecoratingInputs ==
    { Args(PyStr("payment"), PyNone, PyNone, PyNone, PyNone),
      Args(PyNone, PyBool(TRUE), PyNone, PyNone, PyNone) }

\* subsegment.put_annotation(key, value)
Annotation(key, value) == [key |-> key, value |-> value]

\* subsegment.put_metadata(key, value, namespace)
Metadata(key, value, ns) == [key |-> key, value |-> value, namespace |-> ns]

\* how the wrapper ends: it returns the value, or the exception leaves it
Wrapped(f) == [status |-> IF f.does = "return" THEN "returned" ELSE "raised", value |-> f.value]

\* the subsegment of a decorated call
Subsegment(wrapper, annotations, metadata, ended) ==
    [wrapper |-> wrapper, annotations |-> annotations, metadata |-> metadata,
     ended |-> ended]

\* a decorate that annotates every call of a process that started cold
decorate_annotates_always(self, cfg, cold, f) ==
    [is_cold_start |-> cold,
     subsegment |->
        Subsegment("capture_lambda_handler",
            IF cold THEN << Annotation("ColdStart", PyBool(TRUE)) >> ELSE << >>,
            IF f.does = "return"
            THEN IF IsTrue(f.value)
                 THEN << Metadata(<<"lambda handler response">>, f.value, cfg.service) >>
                 ELSE << >>
            ELSE IF IsException(f.value)
                 THEN << Metadata(<<self.service, "error">>, f.value, cfg.service) >>
                 ELSE << >>,
            Wrapped(f))]

\* capture_lambda_handler's decorate(event, context), of the Tracer self, with
\* the shared configuration cfg and the global is_cold_start = cold, around a
\* handler that does f: the global it leaves, and the subsegment with the
\* annotations and metadata put on it and with the way the call ends
decorate(self, cfg, cold, f) ==
    [is_cold_start |-> FALSE,
     subsegment |->
        Subsegment("capture_lambda_handler",
            IF cold THEN << Annotation("ColdStart", PyBool(TRUE)) >> ELSE << >>,
            IF f.does = "return"
            THEN IF IsTrue(f.value)
                 THEN << Metadata(<<"lambda handler response">>, f.value, cfg.service) >>
                 ELSE << >>
            ELSE IF IsException(f.value)
                 THEN << Metadata(<<self.service, "error">>, f.value, cfg.service) >>
                 ELSE << >>,
            Wrapped(f))]

\* a call of a handler that tracers[i].capture_lambda_handler decorates
capture_lambda_handler(i, f) ==
    LET r == decorate(tracers[i].self, _config, is_cold_start, f) IN
    /\ is_cold_start' = r.is_cold_start
    /\ subsegments' = Append(subsegments, r.subsegment)
    /\ UNCHANGED <<_config, tracers, environ, sdk_enabled, patched, resets, provider_calls>>

\* a decorate_logic that records the exception and returns None
decorate_logic_swallows(cfg, f, coroutine) ==
    Subsegment("capture_method", << >>,
        IF f.does = "raise"
        THEN << Metadata(<<"method", "error">>, f.value, cfg.service) >>
        ELSE IF f.value # PyNone
             THEN << Metadata(<<"method", "response">>, f.value, cfg.service) >>
             ELSE << >>,
        IF f.does = "raise" THEN Wrapped(Returns(PyNone)) ELSE Wrapped(f))

\* capture_method's decorate_logic with the shared configuration cfg, around a
\* method that does f, awaited when it is a coroutine: the subsegment with
\* the metadata put on it and with the way the call ends
decorate_logic(cfg, f, coroutine) ==
    Subsegment("capture_method", << >>,
        IF f.does = "raise"
        THEN IF IsException(f.value)
             THEN << Metadata(<<"method", "error">>, f.value, cfg.service) >>
             ELSE << >>
        ELSE IF f.value # PyNone
             THEN << Metadata(<<"method", "response">>, f.value, cfg.service) >>
             ELSE << >>,
        Wrapped(f))

\* a call of a method that tracers[i].capture_method decorates
capture_method(i, f, coroutine) ==
    /\ subsegments' = Append(subsegments, decorate_logic(_config, f, coroutine))
    /\ UNCHANGED <<_config, tracers, environ, sdk_enabled, patched, resets,
                   is_cold_start, provider_calls>>

CallCaptureMethod ==
    /\ Len(subsegments) < MaxInvocations
    /\ \E i \in 1..Len(tracers), f \in FunctionInputs, coroutine \in BOOLEAN :
          capture_method(i, f, coroutine)

CallTracerDecorating ==
    Len(tracers) < MaxDecorating /\ \E a \in DecoratingInputs : Tracer(a)

CallCaptureLambdaHandler ==
    /\ Len(subsegments) < MaxInvocations
    /\ \E i \in 1..Len(tracers), f \in FunctionInputs : capture_lambda_handler(i, f)

----------------------------------------------------------------------------
\* The specifications: a process that uses one MetricManager and constructs
\* no Tracer; a process that constructs Tracers and leaves its MetricManager
\* alone (the two share no state); and a process that adds metrics of new
\* names, one after the other, to a MetricManager that is set up

Init == MetricManagerInit /\ TracerImported(NoEnviron) /\ added = {}

Next ==
    \/ CallAddNamespace /\ UNCHANGED <<tracer_vars, batch_vars>>
    \/ CallAddDimension /\ UNCHANGED <<tracer_vars, batch_vars>>
    \/ CallAddMetricHot /\ UNCHANGED <<tracer_vars, batch_vars>>
    \/ CallAddMetricPlain /\ UNCHANGED <<tracer_vars, batch_vars>>
    \/ CallSerialize /\ UNCHANGED <<tracer_vars, batch_vars>>

Spec == Init /\ [][Next]_vars

MetricManagerIdle ==
    /\ config = [env |-> PyNone, arg |-> PyNone]
    /\ namespace = PyNone
    /\ metric_set = << >>
    /\ dimension_set = << >>
    /\ stdout = << >>
    /\ outcome = Ended("init", "ok", FALSE)

TracerInit ==
    /\ MetricManagerIdle
    /\ \E env \in EnvironInputs : TracerImported(env)
    /\ added = {}

TracerNext ==
    \/ CallTracer /\ UNCHANGED <<metrics_vars, batch_vars>>
    \/ CallResetConfig /\ UNCHANGED <<metrics_vars, batch_vars>>
    \/ CallPutAnnotation /\ UNCHANGED <<metrics_vars, batch_vars>>
    \/ CallPutMetadata /\ UNCHANGED <<metrics_vars, batch_vars>>
    \/ CallPatch /\ UNCHANGED <<metrics_vars, batch_vars>>

TracerSpec == TracerInit /\ [][TracerNext]_vars

\* MetricManager(namespace="ns2") with no metrics, then add_dimension(0, "a")
BatchInit ==
    /\ config = [env |-> PyNone, arg |-> PyStr("ns2")]
    /\ namespace = InitNamespace(PyNone, PyStr("ns2"))
    /\ metric_set = << >>
    /\ dimension_set = << [name |-> 0, value |-> PyStr("a")] >>
    /\ stdout = << >>
    /\ outcome = Ended("add_dimension", "ok", FALSE)
    /\ TracerImported(NoEnviron)
    /\ added = {}

BatchNext == CallAddMetricNew /\ UNCHANGED tracer_vars

HandlerInit == MetricManagerIdle /\ TracerImported(NoEnviron) /\ added = {}

HandlerNext ==
    \/ CallTracerDecorating /\ UNCHANGED <<metrics_vars, batch_vars>>
    \/ CallCaptureLambdaHandler /\ UNCHANGED <<metrics_vars, batch_vars>>
    \/ CallCaptureMethod /\ UNCHANGED <<metrics_vars, batch_vars>>

HandlerSpec == HandlerInit /\ [][HandlerNext]_vars

BatchSpec == BatchInit /\ [][BatchNext]_vars

----------------------------------------------------------------------------
\* Properties

\* the unit is given in one of the three accepted forms: a MetricUnit member,
\* a symbolic name, a canonical string
AcceptedUnit(u) ==
    \/ u.t = "enum"
    \/ u.t = "str" /\ (u.s \in MetricUnitMembers \/ u.s \in metric_units)

\* the canonical string of an accepted unit
Canonical(u) ==
    IF u.t = "enum" THEN MetricUnitValue(u.m)
    ELSE IF u.s \in MetricUnitMembers THEN MetricUnitValue(u.s) ELSE u.s

IntOrFloat(v) == v.t \in {"int", "float"}

\* the first CloudWatchMetrics entry of a document
Directive(doc) == doc.aws.CloudWatchMetrics[1]

DescribedNames(doc) == {Directive(doc).Metrics[i].Name : i \in 1..Len(Directive(doc).Metrics)}

\* the namespace is a non-empty string, a dimension is set and none of them
\* carries the name of a metric of d
SetUp(d) ==
    /\ namespace.t = "str" /\ namespace.s # ""
    /\ dimension_set # << >>
    /\ \A i \in 1..Len(dimension_set) : ~Has(d, dimension_set[i].name)

\* C1: with a namespace and dimensions set, the add_metric call that brings the
\* buffer to 100 distinct names ends ok and prints exactly one document, which
\* describes all 100 metrics and carries the current namespace and dimensions,
\* and leaves the metric buffer empty; a call prints a document only if the
\* buffer holds 100 metrics after its insert (so the call after a flush prints
\* nothing); and add_metric changes neither the dimensions nor the namespace
C1_CeilingFlush ==
    /\ [](\A u \in UnitInputs, v \in ValueInputs, now \in Clock :
            LET n == Fresh(metric_set)
                r == add_metric_result(n, u, v, now)
                doc == r.printed[1]
            IN  ( /\ Len(metric_set) = MAX_METRICS - 1
                  /\ AcceptedUnit(u) /\ IntOrFloat(v)
                  /\ SetUp(DictSet(metric_set, Metric(n, u, v))) )
                => /\ r.status = "ok"
                   /\ Len(r.printed) = 1
                   /\ Len(Directive(doc).Metrics) = MAX_METRICS
                   /\ DescribedNames(doc) = Keys(metric_set) \cup {n}
                   /\ Directive(doc).Namespace = namespace
                   /\ Directive(doc).Dimensions = << KeyList(dimension_set) >>
                   /\ \A i \in 1..Len(dimension_set) :
                         Get(doc.flat, dimension_set[i].name) = dimension_set[i].value
                   /\ r.metric_set = << >>)
    /\ [](\A n \in NameInputs(metric_set), u \in UnitInputs, v \in ValueInputs, now \in Clock :
            LET r == add_metric_result(n, u, v, now) IN
            r.printed # << >>
                => /\ Len(r.printed) = 1
                   /\ Len(DictSet(metric_set, Metric(n, u, v))) = MAX_METRICS)
    /\ [][outcome'.op = "add_metric"
            => /\ UNCHANGED <<dimension_set, namespace>>
               /\ outcome'.flushed = (stdout' # stdout)
               /\ outcome'.flushed => metric_set' = << >> /\ Len(stdout') = Len(stdout) + 1]_vars

\* C2: no document that serialize_metric_set returns, and none that add_metric
\* prints, describes more than 100 metrics
C2_AtMostCeiling ==
    /\ outcome.op = "serialize_metric_set" /\ outcome.status = "ok"
          => Len(metric_set) <= MAX_METRICS
    /\ \A i \in 1..Len(stdout) : Len(Directive(stdout[i]).Metrics) <= MAX_METRICS

\* C3: add_metric for a name already in the buffer replaces its unit and value:
\* the buffer keeps its size and one entry for the name, that entry holds the new
\* value (as a float), and the document printed by the call or returned by a
\* serialize after it carries the new value under the name, unless a dimension
\* has the same name
C3_Overwrites ==
    \A n \in NameInputs(metric_set), u \in UnitInputs, v \in ValueInputs, now \in Clock :
        LET r == add_metric_result(n, u, v, now)
            after == IF r.printed # << >> THEN metric_set ELSE r.metric_set
            s == serialize_metric_set_result(r.metric_set, dimension_set, now)
        IN  (Has(metric_set, n) /\ r.status = "ok")
            => /\ r.printed = << >> =>
                    /\ Len(r.metric_set) = Len(metric_set)
                    /\ Cardinality({i \in 1..Len(r.metric_set) : r.metric_set[i].name = n}) = 1
                    /\ r.metric_set[Index(r.metric_set, n)].Value = ToFloat(v)
                    /\ (s.status = "ok" /\ ~Has(dimension_set, n))
                          => Get(s.returned.flat, n) = ToFloat(v)
               /\ r.printed # << >> =>
                    /\ Len(Directive(r.printed[1]).Metrics) = Len(after)
                    /\ ~Has(dimension_set, n) => Get(r.printed[1].flat, n) = ToFloat(v)

\* the pre-populated metric under name 1, stored with value 1, was added again
\* with value 2**53 + 1, stored as 2**53
C3_Witness ==
    /\ Len(metric_set) = MAX_METRICS - Near
    /\ metric_set[1].name = 1
    /\ metric_set[1].Value = PyFloatOf(DoubleExactHi, 0)
    /\ outcome = Ended("add_metric", "ok", FALSE)

\* C4: once the namespace is set, every add_namespace call, also one that passes
\* the value already set, ends in UniqueNamespaceError and the namespace stays
C4_NamespaceOnce ==
    /\ [](namespace # PyNone =>
            \A name \in NamespaceInputs \cup {namespace} :
                /\ add_namespace_result(name).status = "UniqueNamespaceError"
                /\ add_namespace_result(name).namespace = namespace)
    /\ [][namespace # PyNone => namespace' = namespace]_vars

\* add_namespace set the namespace and a later add_namespace failed
C4_Witness ==
    /\ config = [env |-> PyNone, arg |-> PyNone]
    /\ namespace = PyStr("ns2")
    /\ outcome = Ended("add_namespace", "UniqueNamespaceError", FALSE)

\* C5: add_metric with a numeric value and a unit string that is neither a
\* canonical unit value nor a symbolic unit name ends in MetricUnitError, stores
\* nothing and prints nothing
C5_InvalidUnit ==
    \A n \in NameInputs(metric_set), u \in UnitInputs, v \in ValueInputs, now \in Clock :
        (u.t = "str" /\ ~AcceptedUnit(u) /\ IsNumber(v))
        => LET r == add_metric_result(n, u, v, now) IN
           /\ r.status = "MetricUnitError"
           /\ r.metric_set = metric_set
           /\ r.printed = << >>

\* an add_metric call ended in MetricUnitError on a buffer that holds metrics
C5_Witness ==
    /\ outcome = Ended("add_metric", "MetricUnitError", FALSE)
    /\ metric_set # << >>

\* C6: add_metric with a value that is neither an int nor a float ends in
\* MetricValueError whatever the unit is, also an invalid one, stores nothing and
\* prints nothing
C6_InvalidValue ==
    \A n \in NameInputs(metric_set), u \in UnitInputs, v \in ValueInputs, now \in Clock :
        v.t \notin {"int", "float"}
        => LET r == add_metric_result(n, u, v, now) IN
           /\ r.status = "MetricValueError"
           /\ r.metric_set = metric_set
           /\ r.printed = << >>

\* C7: every add_metric call that ends in an error, the SchemaValidationError of
\* the ceiling flush included, leaves the metric buffer as it was
C7_ErrorLeavesBuffer ==
    [][(outcome'.op = "add_metric" /\ outcome'.status # "ok")
          => metric_set' = metric_set]_vars

C9_Normalization ==
    /\ \A u \in UnitInputs :
          IF AcceptedUnit(u)
          THEN ~ExtractRaises(u) /\ extract_metric_unit_value(u) = PyStr(Canonical(u))
          ELSE ExtractRaises(u)
    /\ \A i \in 1..Len(metric_set) :
          metric_set[i].Unit.t = "str" /\ metric_set[i].Unit.s \in metric_units

\* C10: while the namespace is None, serialize_metric_set ends in
\* SchemaValidationError, whatever metrics and dimensions are buffered
C10_NoNamespace ==
    namespace = PyNone =>
        \A now \in Clock :
            serialize_metric_set_result(metric_set, dimension_set, now).status
                = "SchemaValidationError"

\* serialize_metric_set failed with metrics and dimensions buffered and no
\* namespace
C10_Witness ==
    /\ outcome = Ended("serialize_metric_set", "SchemaValidationError", FALSE)
    /\ namespace = PyNone
    /\ metric_set # << >>
    /\ dimension_set # << >>

\* C11: whenever the document assembled from the buffers fails validation,
\* serialize_metric_set ends in SchemaValidationError and returns no document;
\* an add_metric call whose insert brings the buffer to 100 metrics then ends in
\* SchemaValidationError itself and prints nothing; and no call that ends in
\* SchemaValidationError writes to stdout
C11_ValidationFailure ==
    /\ [](\A now \in Clock :
            ~SchemaValid(Assemble(metric_set, dimension_set, namespace, now))
            => LET s == serialize_metric_set_result(metric_set, dimension_set, now) IN
               s.status = "SchemaValidationError" /\ s.returned = PyNone)
    /\ [](\A n \in NameInputs(metric_set), u \in UnitInputs, v \in ValueInputs, now \in Clock :
            LET stored == DictSet(metric_set, Metric(n, u, v))
                r == add_metric_result(n, u, v, now)
            IN  ( /\ Stores(u, v)
                  /\ Len(stored) = MAX_METRICS
                  /\ ~SchemaValid(Assemble(stored, dimension_set, namespace, now)) )
                => r.status = "SchemaValidationError" /\ r.printed = << >>)
    /\ [][outcome'.status = "SchemaValidationError" => stdout' = stdout]_vars

\* the ceiling flush of an add_metric call failed: the call ended in
\* SchemaValidationError and nothing was printed
C11_Witness ==
    /\ outcome = Ended("add_metric", "SchemaValidationError", FALSE)
    /\ Len(metric_set) = MAX_METRICS
    /\ stdout = << >>

\* C12: an engine just constructed with a namespace in the environment and a
\* namespace argument has the argument as its namespace
C12_ExplicitWins ==
    (outcome.op = "init" /\ Truthy(config.env) /\ config.arg # PyNone)
        => namespace = config.arg

\* C13 as claimed: an add_metric call that ends ok returns True when it printed a
\* document and cleared the metric buffer, and False otherwise
C13_ReportsFlush ==
    \A n \in NameInputs(metric_set), u \in UnitInputs, v \in ValueInputs, now \in Clock :
        LET r == add_metric_result(n, u, v, now) IN
        r.status = "ok" => r.returned = PyBool(r.printed # << >>)

\* C13 as amended: every add_metric call returns None, whether it raises, stores
\* without a flush, or prints a document and clears the metric buffer; the flush
\* shows in stdout and in the emptied buffer only
C13_ReturnsNone ==
    \A n \in NameInputs(metric_set), u \in UnitInputs, v \in ValueInputs, now \in Clock :
        LET r == add_metric_result(n, u, v, now) IN
        /\ r.returned = PyNone
        /\ r.printed # << >> => r.status = "ok" /\ r.metric_set = << >>

\* an add_metric call printed a document and cleared the metric buffer
C13_Witness ==
    /\ outcome = Ended("add_metric", "ok", TRUE)
    /\ metric_set = << >>
    /\ Len(stdout) = 1


\* a Tracer constructed with a service name, and a later one constructed
\* without arguments, with nothing but argument-less constructions between them
Reuses(i, j) ==
    /\ i < j
    /\ IsTrue(tracers[i].args.service)
    /\ \A k \in (i + 1)..j : tracers[k].args = NoArgs /\ tracers[k].epoch = tracers[i].epoch

\* C14: the Tracer configuration is shared: a Tracer constructed without
\* arguments after an earlier Tracer that was given a service name (and a
\* provider) has that Tracer's service name and provider, as long as
\* _reset_config was not called in between
C14_SharedConfig ==
    \A i, j \in 1..Len(tracers) :
        Reuses(i, j) =>
            /\ tracers[j].self.service = tracers[i].args.service
            /\ tracers[j].self.provider = tracers[i].self.provider
            /\ tracers[i].args.provider # PyNone
               => tracers[j].self.provider = tracers[i].args.provider

\* the same, in a process whose environment has no POWERTOOLS_SERVICE_NAME
C14_SharedConfigNoEnv ==
    ~IsTrue(environ.POWERTOOLS_SERVICE_NAME) => C14_SharedConfig


\* C15: no add_metric call changes the dimension buffer or the namespace,
\* whether it inserts, overwrites, fails or flushes at the ceiling; no
\* add_dimension call changes the metric buffer or the namespace
C15_Frames ==
    [][ /\ outcome'.op = "add_metric"
           => dimension_set' = dimension_set /\ namespace' = namespace
        /\ outcome'.op = "add_dimension"
           => metric_set' = metric_set /\ namespace' = namespace /\ stdout' = stdout
      ]_vars

\* add_metric has flushed a full buffer, and the dimensions and the namespace
\* set before it are in place
C15_Witness ==
    /\ outcome.op = "add_metric" /\ outcome.flushed
    /\ dimension_set = << [name |-> 0, value |-> PyStr("b")] >>
    /\ namespace = PyStr("ns2")


\* the document with its timestamp taken out
Untimed(doc) == [doc EXCEPT !.aws.Timestamp = 0]

\* C16: serialize_metric_set, returning or failing, leaves the metric buffer,
\* the dimension buffer and the namespace as they were and prints nothing, so
\* it does not clear the metrics; two calls at any two clock readings end the
\* same way, and the documents they return differ at most in the timestamp
C16_SerializeReadsOnly ==
    /\ [][outcome'.op = "serialize_metric_set"
            => /\ metric_set' = metric_set
               /\ dimension_set' = dimension_set
               /\ namespace' = namespace
               /\ stdout' = stdout]_vars
    /\ [](\A now1, now2 \in 0..(MaxNow + 1) :
            LET first == serialize_metric_set_result(metric_set, dimension_set, now1)
                second == serialize_metric_set_result(metric_set, dimension_set, now2)
            IN  /\ first.status = second.status
                /\ first.status = "ok"
                   => /\ Untimed(first.returned) = Untimed(second.returned)
                      /\ first.returned.aws.Timestamp = now1
                      /\ second.returned.aws.Timestamp = now2)

\* an explicit serialize_metric_set returned a document of a buffer that holds
\* the ceiling's number of metrics, and the buffer still holds them
C16_Witness ==
    /\ outcome = Ended("serialize_metric_set", "ok", FALSE)
    /\ Len(metric_set) = MAX_METRICS
    /\ stdout = << >>


\* the names of the metric descriptors of a document, in the document's order
DescriptorNames(doc) ==
    [i \in 1..Len(Directive(doc).Metrics) |-> Directive(doc).Metrics[i].Name]

\* the order of the names after name is added to a buffer whose order is order
OrderAfter(order, name) ==
    IF \E i \in 1..Len(order) : order[i] = name THEN order ELSE Append(order, name)

\* C17: the buffer holds each name once; the descriptor list of every document
\* that serialize_metric_set returns or that add_metric prints has one
\* descriptor per buffered metric, in the buffer's order; that order is the
\* order of first insertion since the last flush: a new name goes last, and
\* re-adding a name changes its unit and value and leaves every position
C17_DescriptorOrder ==
    /\ Cardinality(Keys(metric_set)) = Len(metric_set)
    /\ \A now \in Clock :
          LET s == serialize_metric_set_result(metric_set, dimension_set, now) IN
          s.status = "ok"
          => /\ DescriptorNames(s.returned) = KeyList(metric_set)
             /\ \A i \in 1..Len(metric_set) :
                   Directive(s.returned).Metrics[i].Unit = metric_set[i].Unit
    /\ \A n \in NameInputs(metric_set), u \in UnitInputs, v \in ValueInputs, now \in Clock :
          LET r == add_metric_result(n, u, v, now)
              order == OrderAfter(KeyList(metric_set), n)
          IN  r.status = "ok"
              => IF r.printed = << >>
                 THEN /\ KeyList(r.metric_set) = order
                      /\ \A i \in 1..Len(r.metric_set) :
                            IF order[i] = n
                            THEN r.metric_set[i] = Metric(n, u, v)
                            ELSE r.metric_set[i] = metric_set[i]
                 ELSE /\ DescriptorNames(r.printed[1]) = order
                      /\ r.metric_set = << >>

\* a document was returned for a buffer that a failed flush left over the
\* ceiling and whose first metric was re-added with another unit: the re-added
\* name is still first and the name added last is last
C17_Witness ==
    /\ outcome = Ended("serialize_metric_set", "ok", FALSE)
    /\ Len(metric_set) = MAX_METRICS + MaxOver
    /\ metric_set[1].name = 1
    /\ metric_set[1].Unit = PyStr("Count/Second")
    /\ metric_set[Len(metric_set)].name = MAX_METRICS + MaxOver


\* after is before with name mapped to value and every other name as it was
Upserted(before, after, name, value) ==
    /\ Keys(after) = Keys(before) \cup {name}
    /\ Cardinality(Keys(after)) = Len(after)
    /\ Get(after, name) = value
    /\ \A k \in Keys(before) \ {name} : Get(after, k) = Get(before, k)

\* the document has exactly one dimension group, which lists each name of
\* dimensions once
OneGroupOf(doc, dimensions) ==
    /\ Len(Directive(doc).Dimensions) = 1
    /\ LET group == Directive(doc).Dimensions[1] IN
       /\ {group[i] : i \in 1..Len(group)} = Keys(dimensions)
       /\ Len(group) = Cardinality(Keys(dimensions))

\* C18: every add_dimension call ends ok and is an upsert: the name it was
\* given maps to the value it was given and every other name keeps its value
\* (so the buffer maps each name to the value of the last call for it); every
\* document that serialize_metric_set returns or add_metric prints has exactly
\* one dimension group, listing all the names of the dimension buffer
C18_DimensionUpsert ==
    /\ [](\A d \in DimensionInputs :
            LET r == add_dimension_result(d.name, d.value) IN
            /\ r.status = "ok"
            /\ Upserted(dimension_set, r.dimension_set, d.name, d.value))
    /\ [][outcome'.op = "add_dimension" => outcome'.status = "ok"]_vars
    /\ [](\A now \in Clock :
            LET s == serialize_metric_set_result(metric_set, dimension_set, now) IN
            s.status = "ok" => OneGroupOf(s.returned, dimension_set))
    /\ [][stdout' # stdout => OneGroupOf(stdout'[Len(stdout')], dimension_set)]_vars

\* add_dimension has set a name again: the printed document shows the value
\* the name had, and the buffer holds the value of the later call, in the
\* name's first position
C18_Witness ==
    /\ outcome = Ended("add_dimension", "ok", FALSE)
    /\ stdout # << >>
    /\ Has(stdout[1].flat, 0) /\ Get(stdout[1].flat, 0) = PyStr("a")
    /\ dimension_set = << [name |-> 0, value |-> PyStr("b")], [name |-> 1, value |-> PyStr("a")] >>


\* the values a dimension is given: a str, as documented, or a number
CollidingValues == {PyStr("a"), PyFloat(7)}

\* the dimension buffer after add_dimension(k, v)
WithDimension(k, v) == add_dimension_result(k, v).dimension_set

\* the document names k as a metric and as a dimension, and its flat entry
\* under k is v
Collides(doc, k, v) ==
    /\ Has(doc.flat, k) /\ Get(doc.flat, k) = v
    /\ Cardinality({j \in 1..Len(doc.flat) : doc.flat[j].name = k}) = 1
    /\ k \in DescribedNames(doc)
    /\ \E j \in 1..Len(Directive(doc).Dimensions[1]) : Directive(doc).Dimensions[1][j] = k

Attempted(r) == r.printed # << >> \/ r.status = "SchemaValidationError"

\* C20: an add_metric call that stores its metric attempts the flush exactly
\* when the buffer then holds 100 names: not when it holds fewer (also when an
\* existing name is re-added at 99), not when it holds more (a buffer that a
\* failed flush left at 100 or more), and also when an existing name is
\* re-added to a buffer of exactly 100; a call that stores nothing attempts none
C20_FlushExactlyAtCeiling ==
    \A n \in NameInputs(metric_set), u \in UnitInputs, v \in ValueInputs, now \in Clock :
        LET r == add_metric_result(n, u, v, now)
            count == Cardinality(Keys(metric_set) \cup {n})
        IN  /\ Stores(u, v) => (Attempted(r) <=> count = MAX_METRICS)
            /\ ~Stores(u, v) => ~Attempted(r)
            /\ (~Attempted(r) /\ Stores(u, v))
               => r.status = "ok" /\ Len(r.metric_set) = count

\* add_metric has added a name to a buffer of 100 metrics that a flush would
\* have printed, and attempted none: the buffer holds 101 metrics
C20_Witness ==
    /\ outcome = Ended("add_metric", "ok", FALSE)
    /\ Len(metric_set) = MAX_METRICS + 1
    /\ \A now \in Clock : SchemaValid(Assemble(metric_set, dimension_set, namespace, now))


\* the number of places that hold the name: the printed documents that
\* describe it, and the metric buffer
Places(n) ==
    Cardinality({i \in 1..Len(stdout) : n \in DescribedNames(stdout[i])})
    + (IF Has(metric_set, n) THEN 1 ELSE 0)

\* C21: with a namespace and a dimension set, after any sequence of add_metric
\* calls with pairwise distinct names, every name whose call ended ok is in
\* exactly one place, one printed document or the metric buffer, no document
\* describes a name twice, and the number of printed documents is the number
\* of those names divided by 100, rounded down
C21_NoLossNoDuplicate ==
    /\ \A n \in added : Places(n) = 1
    /\ \A i \in 1..Len(stdout) :
          Cardinality(DescribedNames(stdout[i])) = Len(Directive(stdout[i]).Metrics)
    /\ Len(stdout) = Cardinality(added) \div MAX_METRICS

\* the same, as long as no metric was stored with the unit None
C21_NoLossNoDuplicateUnitsGiven ==
    (\A i \in 1..Len(metric_set) : metric_set[i].Unit # PyNone) => C21_NoLossNoDuplicate


\* the subsegment carries a ColdStart annotation
ColdStartPut(sub) ==
    \E k \in 1..Len(sub.annotations) : sub.annotations[k].key = "ColdStart"

\* C22: of all the calls of handlers that capture_lambda_handler decorates, on
\* whatever Tracer, the first puts the ColdStart annotation on its subsegment,
\* once and with the value True, and no later one puts it, also when the
\* handler of the first call raised
C22_ColdStartOnce ==
    LET handled == SelectSeq(subsegments, LAMBDA sub : sub.wrapper = "capture_lambda_handler")
    IN  /\ \A k \in 1..Len(handled) : ColdStartPut(handled[k]) <=> k = 1
        /\ handled # << >>
           => handled[1].annotations = << Annotation("ColdStart", PyBool(TRUE)) >>
        /\ is_cold_start <=> handled = << >>

\* three handlers ran on two Tracers; the first raised and has the annotation
C22_Witness ==
    /\ Len(subsegments) = 3
    /\ Len(tracers) = 2
    /\ \A k \in 1..3 : subsegments[k].wrapper = "capture_lambda_handler"
    /\ subsegments[1].ended.status = "raised"
    /\ ColdStartPut(subsegments[1])
    /\ subsegments[3].ended.status = "returned"


\* the metadata put on the subsegment that carry the exception err
ErrorsRecorded(sub, err) ==
    {k \in 1..Len(sub.metadata) :
        sub.metadata[k].value = err /\ sub.metadata[k].key[Len(sub.metadata[k].key)] = "error"}

\* the metadata put on the subsegment that are a response
ResponsesRecorded(sub) ==
    {k \in 1..Len(sub.metadata) :
        sub.metadata[k].key[Len(sub.metadata[k].key)] \in {"response", "lambda handler response"}}

\* what the two wrappers do around a function that does f: the subsegment of
\* each, and whether a value that the function returns is recorded
WrapperResults(i, f) ==
    { [sub |-> decorate(tracers[i].self, _config, is_cold_start, f).subsegment,
       records |-> IsTrue(f.value)] }
    \cup { [sub |-> decorate_logic(_config, f, coroutine), records |-> f.value # PyNone] :
             coroutine \in BOOLEAN }

\* the wrapper returns what the function returns, with the response recorded
\* once or not at all and nothing else, and lets what the function raises
\* leave, with no response recorded
PassesThrough(w, f) ==
    /\ w.sub.ended = Wrapped(f)
    /\ f.does = "return"
       => /\ Cardinality(ResponsesRecorded(w.sub)) = (IF w.records THEN 1 ELSE 0)
          /\ Len(w.sub.metadata) = Cardinality(ResponsesRecorded(w.sub))
          /\ \A k \in ResponsesRecorded(w.sub) : w.sub.metadata[k].value = f.value
    /\ f.does = "raise" => ResponsesRecorded(w.sub) = {}

ConstructedDisabled(a) ==
    \/ a.disabled # PyNone /\ IsTrue(a.disabled)
    \/ a.disabled = PyNone /\ IsTrue(is_trace_disabled(environ))

\* C24: a Tracer constructed as disabled, by argument or environment, is
\* disabled and leaves the shared configuration disabled; while the shared
\* configuration is disabled every Tracer constructed is disabled, whatever
\* its arguments, disabled=False included, and the configuration stays
\* disabled until _reset_config; so of two Tracers with no _reset_config
\* between them the later is disabled if the earlier is; a disabled Tracer
\* makes no call of the provider in put_annotation and put_metadata and none
\* of the SDK in patch
C24_DisabledSticky ==
    /\ [](\A a \in TracerInputs :
            LET cfg == build_config(_config, environ, a) IN
            /\ ConstructedDisabled(a) => IsTrue(cfg.disabled)
            /\ IsTrue(_config.disabled) => IsTrue(cfg.disabled)
            /\ IsTrue(Instance(cfg).disabled) <=> IsTrue(cfg.disabled))
    /\ [][(IsTrue(_config.disabled) /\ resets' = resets) => IsTrue(_config'.disabled)]_vars
    /\ [](\A i, j \in 1..Len(tracers) :
            (i < j /\ tracers[i].epoch = tracers[j].epoch /\ IsTrue(tracers[i].self.disabled))
            => IsTrue(tracers[j].self.disabled))
    /\ [](\A i \in 1..Len(tracers) :
            IsTrue(tracers[i].self.disabled)
            => /\ put_annotation_result(tracers[i].self, "key", PyStr("value")) = << >>
               /\ \A ns \in MetadataNamespaceInputs :
                     put_metadata_result(tracers[i].self, "key", PyStr("value"), ns) = << >>
               /\ \A modules \in ModuleInputs :
                     patch_result(tracers[i].self, modules) = << >>)
    /\ [][(\A i \in 1..Len(tracers) : IsTrue(tracers[i].self.disabled))
            => (provider_calls' = provider_calls
                /\ (tracers' = tracers => patched' = patched))]_vars

\* a Tracer was constructed with disabled=True, the next with disabled=False
\* and is disabled, no call reached the provider; after _reset_config a
\* Tracer is enabled and its put_metadata reached the provider
C24_Witness ==
    /\ Len(tracers) = 3
    /\ tracers[1].args.disabled = PyBool(TRUE)
    /\ tracers[2].args.disabled = PyBool(FALSE)
    /\ IsTrue(tracers[2].self.disabled)
    /\ tracers[2].epoch = 0 /\ tracers[3].epoch = 1
    /\ ~IsTrue(tracers[3].self.disabled)
    /\ Len(provider_calls) = 1 /\ provider_calls[1].call = "put_metadata"

====
